---- MODULE Spec2Model ----
(***************************************************************************)
(* Home maintenance reminder script (Code.js).                             *)
(*                                                                         *)
(* Two entry points run in the host: main (scan the maintenance log and    *)
(* e-mail what is due) and setupSchedule (replace the weekly triggers).    *)
(* Every execution starts in a fresh context: the global CONFIG is null.   *)
(* The spreadsheet, the mail transport, the trigger store and the clock    *)
(* belong to the host; their answers are inputs of the model.              *)
(***************************************************************************)
EXTENDS Integers, Sequences, FiniteSets

VARIABLES
    pc,             \* control point of the running execution
    entry,          \* entry point the host invoked: "none", "main", "setupSchedule", "item"
    USER_CONFIG,    \* Code.js:16  [email]
    DEFAULT_CONFIG, \* Code.js:21  the fields the logic reads
    CONFIG,         \* Code.js:78  NullConfig or the merged configuration
    book,           \* the active spreadsheet: [exists, headerRow, sheetData]
    clock,          \* the host clock, an instant in milliseconds
    triggers,       \* the project's trigger store, in creation order
    allTriggers,    \* deleteTriggers local: what getProjectTriggers returned
    iItem, iDueDate, iArchived,          \* readMaintenanceLog locals
    overdueItems, dueItems, nEmpty,      \* readMaintenanceLog locals
    cursor,         \* rows of sheetData the for-of loop has taken so far
    error,          \* the exception in flight ("none" when there is none)
    outbox,         \* MailApp.sendEmail calls that succeeded in this execution
    nReports,       \* history: calls of sendEmailError in this execution
    item,           \* the MaintenanceItem under evaluation (date arithmetic)
    days            \* the value daysTilDue returned for item

vars == << pc, entry, USER_CONFIG, DEFAULT_CONFIG, CONFIG, book, clock, triggers,
           allTriggers,
           iItem, iDueDate, iArchived, overdueItems, dueItems, nEmpty, cursor,
           error, outbox, nReports, item, days >>

----------------------------------------------------------------------------
(* Program constants *)

MS_PER_SECOND == 1000
MS_PER_MINUTE == MS_PER_SECOND * 60
MS_PER_HOUR == MS_PER_MINUTE * 60
MS_PER_DAY == MS_PER_HOUR * 24

\* if (nEmpty === 4) break;
EmptyRowLimit == 4

\* DEFAULT_CONFIG.daysDueThreshold and daysOverdueThreshold as shipped
DefaultDueThreshold == 7
DefaultOverdueThreshold == 14

\* findColumn returns null when no header cell matches; column indexes are >= 0
NULL == -1

PlaceholderEmail == "youremail@gmail.com"
ValidEmail == "owner@example.com"
NoEmail == ""

NullConfig == [null |-> TRUE]

----------------------------------------------------------------------------
(* Bounds of the model *)

MaxRows == 6          \* longest sheet of plain rows (blank / populated)
MaxRichRows == 2      \* longest sheet of rows with varied due dates
MaxThreshold == 1     \* thresholds range over 0..MaxThreshold
MaxDueDay == 2        \* due dates range over -MaxDueDay..MaxDueDay days from today
MaxTriggers == 2      \* registrations in the store before the first call
MaxSchedule == 2      \* length of triggerDays and of triggerHours
MaxHourSpan == 50     \* date arithmetic: instants within this many hours of the epoch

----------------------------------------------------------------------------
(* Sequences *)

SeqsUpTo(S, n) == UNION { [1..k -> S] : k \in 0..n }

Range(s) == { s[k] : k \in 1..Len(s) }

RECURSIVE Count(_, _)
Count(s, x) ==
    IF s = << >> THEN 0
    ELSE (IF Head(s) = x THEN 1 ELSE 0) + Count(Tail(s), x)

----------------------------------------------------------------------------
(* Date arithmetic: getDaysBetween and the MaintenanceItem class *)

\* Local midnights of the script's time zone, in hours from the epoch (itself a
\* local midnight).  Days are 24 hours long except a 25-hour day (-49 to -24,
\* clocks set back) and a 23-hour day (24 to 47, clocks set forward).
LocalMidnights == { h * MS_PER_HOUR : h \in {-73, -49, -24, 0, 24, 47, 71} }

\* Date.setHours(0,0,0,0): the local midnight that starts the day of instant t
StartOfDay(t) ==
    CHOOSE m \in LocalMidnights :
        m <= t /\ \A m2 \in LocalMidnights : m2 <= t => m2 <= m

\* Math.trunc(n / d) for d > 0: the quotient with its fraction dropped
MathTrunc(n, d) == IF n >= 0 THEN n \div d ELSE -((-n) \div d)

\* Math.round acts on the difference of two integer instants, which it leaves
\* as it is; the division by MS_PER_DAY comes after it and is then truncated.
getDaysBetween(earlierDate, laterDate) ==
    LET rounded == laterDate - earlierDate
    IN  MathTrunc(rounded, MS_PER_DAY)

\* constructor: today is the clock truncated to the start of the day
MaintenanceItem(desc, dueDate) ==
    [desc |-> desc, dueDate |-> dueDate, today |-> StartOfDay(clock)]

daysTilDue(it) == getDaysBetween(it.today, it.dueDate)

isDue(it) == daysTilDue(it) <= CONFIG.daysDueThreshold

isOverdueStrict(it) == daysTilDue(it) < -1 * CONFIG.daysOverdueThreshold

isOverdue(it) == daysTilDue(it) <= -1 * CONFIG.daysOverdueThreshold

----------------------------------------------------------------------------
(* The spreadsheet *)

\* CONFIG.columns: the labels findColumn looks for
ColumnLabels == [maintenance |-> "Maintenance", due |-> "Next due", archived |-> "Archived"]

\* new RegExp(label, 'i').test(cell) over the header cells of the model: the
\* cells that contain the label, letter case ignored
RegexTest(label, cell) ==
    CASE label = "Maintenance" -> cell \in {"Maintenance", "maintenance task"}
      [] label = "Next due"    -> cell \in {"Next due", "NEXT DUE DATE"}
      [] label = "Archived"    -> cell \in {"Archived"}
      [] OTHER                 -> FALSE

\* rowData.findIndex(...): the 0-based index of the first matching cell, or null
findColumn(rowData, label) ==
    LET hits == { k \in 1..Len(rowData) : RegexTest(label, rowData[k]) }
    IN  IF hits = {} THEN NULL
        ELSE (CHOOSE k \in hits : \A k2 \in hits : k <= k2) - 1

\* The field of a data row that sits under a header cell
FieldOf(cell) ==
    CASE cell \in {"Maintenance", "maintenance task"} -> "task"
      [] cell \in {"Next due", "NEXT DUE DATE"}       -> "due"
      [] cell \in {"Archived"}                        -> "archived"
      [] OTHER                                        -> "frequency"

\* row[i]: the cell of the row in column i (i is a column findColumn returned)
Cell(row, i) == row[FieldOf(book.headerRow[i + 1])]

\* Cells: a task cell is text ("" when blank), a due cell is << >> when blank
\* and <<t>> for a Date at instant t, an archived cell is a checkbox.
BlankDate == << >>
DateCell(t) == << t >>

ExampleHeader == << "Maintenance", "Next due", "Frequency", "Archived" >>
ReorderedHeader == << "Archived", "NEXT DUE DATE", "maintenance task" >>
NoArchivedHeader == << "Maintenance", "Next due", "Frequency" >>
NoDueHeader == << "Maintenance", "Frequency", "Archived" >>
NoTaskHeader == << "Frequency", "Next due" >>

GoodHeaders == { ExampleHeader, ReorderedHeader, NoArchivedHeader }
BadHeaders == { NoDueHeader, NoTaskHeader }

Row(task, due, archived) ==
    [task |-> task, due |-> due, archived |-> archived, frequency |-> ""]

BlankRow == Row("", BlankDate, FALSE)
PopulatedRow == Row("Replace filter", DateCell(0), FALSE)

PlainRows == { BlankRow, PopulatedRow }

DueDays == (-MaxDueDay) .. MaxDueDay

RichRows ==
    { Row("Clean gutters", DateCell(k * MS_PER_DAY), FALSE) : k \in DueDays }
    \cup { Row("Test smoke alarm", DateCell(k * MS_PER_DAY), TRUE) : k \in {-MaxDueDay, 0} }
    \cup { BlankRow, Row("Clean gutters", BlankDate, FALSE), Row("", DateCell(0), TRUE) }

Sheets == SeqsUpTo(PlainRows, MaxRows) \cup SeqsUpTo(RichRows, MaxRichRows)

NoSheet == [exists |-> FALSE, headerRow |-> << >>, sheetData |-> << >>]

Books ==
    { NoSheet }
    \cup { [exists |-> TRUE, headerRow |-> h, sheetData |-> d] : h \in GoodHeaders, d \in Sheets }
    \cup { [exists |-> TRUE, headerRow |-> h, sheetData |-> << >>] : h \in BadHeaders }

\* The end-to-end sheet of the README template: one overdue task, one due
\* task, one archived task.
ExampleBook ==
    [exists |-> TRUE, headerRow |-> ExampleHeader,
     sheetData |-> << Row("Clean gutters", DateCell(-20 * MS_PER_DAY), FALSE),
                      Row("Replace filter", DateCell(3 * MS_PER_DAY), FALSE),
                      Row("Test smoke alarm", DateCell(20 * MS_PER_DAY), TRUE) >>]

----------------------------------------------------------------------------
(* Configuration and error reporting *)

\* isFakeEmail()
isFakeEmail == USER_CONFIG.email = PlaceholderEmail

\* {...DEFAULT_CONFIG, ...USER_CONFIG}
MergedConfig ==
    [email |-> USER_CONFIG.email,
     daysDueThreshold |-> DEFAULT_CONFIG.daysDueThreshold,
     daysOverdueThreshold |-> DEFAULT_CONFIG.daysOverdueThreshold,
     triggerDays |-> DEFAULT_CONFIG.triggerDays,
     triggerHours |-> DEFAULT_CONFIG.triggerHours]

EmailInvalidMissingOnly(cfg) == cfg.email = NoEmail

\* loadConfig's check of the merged configuration cfg
EmailInvalid(cfg) == cfg.email = NoEmail \/ isFakeEmail

Mail(kind, to, due, overdue, about) ==
    [kind |-> kind, to |-> to, due |-> due, overdue |-> overdue, about |-> about]

sendEmailErrorNoThrow(cfg, err, dieOnError, delivered) ==
    LET emailTo == IF cfg # NullConfig /\ cfg.email # NoEmail
                   THEN cfg.email ELSE USER_CONFIG.email
    IN  IF emailTo = NoEmail \/ ~delivered
        THEN [outbox |-> outbox, thrown |-> "none"]
        ELSE [outbox |-> Append(outbox, Mail("error", emailTo, << >>, << >>, err)),
              thrown |-> "none"]

\* sendEmailError(err, dieOnError) run with configuration cfg, when the host
\* answers `delivered` to MailApp.sendEmail (FALSE: the transport throws).
\* The result is the outbox after the call and the exception it leaves in
\* flight ("none" when it returns normally).
sendEmailError(cfg, err, dieOnError, delivered) ==
    LET emailTo == IF cfg # NullConfig /\ cfg.email # NoEmail
                   THEN cfg.email ELSE USER_CONFIG.email
    IN  IF emailTo = NoEmail
        THEN [outbox |-> outbox, thrown |-> IF dieOnError THEN err ELSE "none"]
        ELSE IF ~delivered
        THEN [outbox |-> outbox, thrown |-> "transport"]
        ELSE [outbox |-> Append(outbox, Mail("error", emailTo, << >>, << >>, err)),
              thrown |-> IF dieOnError THEN err ELSE "none"]

\* Where an exception thrown inside the entry point's body lands: main wraps
\* its body in try/catch, setupSchedule does not.
OnThrow == IF entry = "main" THEN "catch" ELSE "failed"

Running == pc \notin {"idle", "done", "failed"}

\* Variables no entry point writes
Environment == << USER_CONFIG, DEFAULT_CONFIG, book, clock >>
ScanLocals == << iItem, iDueDate, iArchived, overdueItems, dueItems, nEmpty, cursor >>
Store == << triggers, allTriggers >>
Probe == << item, days >>

\* The host invokes entry point e in a fresh context
Invoke(e) ==
    /\ ~Running
    /\ entry' = e
    /\ pc' = "loadConfig"
    /\ CONFIG' = NullConfig
    /\ iItem' = NULL /\ iDueDate' = NULL /\ iArchived' = NULL
    /\ overdueItems' = << >> /\ dueItems' = << >> /\ nEmpty' = 0 /\ cursor' = 0
    /\ allTriggers' = << >>
    /\ error' = "none" /\ outbox' = << >> /\ nReports' = 0
    /\ UNCHANGED << Environment, triggers, Probe >>

InvokeMain == Invoke("main")

InvokeSetupSchedule == Invoke("setupSchedule")

\* loadConfig(), first statement of both entry points
LoadConfig ==
    /\ pc = "loadConfig"
    /\ IF CONFIG # NullConfig
       THEN /\ UNCHANGED << CONFIG, outbox, error, nReports >>
            /\ pc' = IF entry = "main" THEN "getSheet" ELSE "deleteTriggers"
       ELSE /\ CONFIG' = MergedConfig
            /\ IF EmailInvalid(MergedConfig)
               THEN \E delivered \in BOOLEAN :
                      LET eff == sendEmailError(MergedConfig, "config", TRUE, delivered)
                      IN  /\ outbox' = eff.outbox
                          /\ error' = eff.thrown
                          /\ nReports' = nReports + 1
                          /\ pc' = IF eff.thrown = "none"
                                   THEN (IF entry = "main" THEN "getSheet" ELSE "deleteTriggers")
                                   ELSE OnThrow
               ELSE /\ UNCHANGED << outbox, error, nReports >>
                    /\ pc' = IF entry = "main" THEN "getSheet" ELSE "deleteTriggers"
    /\ UNCHANGED << entry, Environment, Store, ScanLocals, Probe >>

----------------------------------------------------------------------------
(* readMaintenanceLog *)

\* getSheetByName; a missing sheet is reported and the report throws
GetSheet ==
    /\ pc = "getSheet"
    /\ IF ~book.exists
       THEN \E delivered \in BOOLEAN :
              LET eff == sendEmailError(CONFIG, "sheet", TRUE, delivered)
              IN  /\ outbox' = eff.outbox
                  /\ error' = eff.thrown
                  /\ nReports' = nReports + 1
                  /\ pc' = IF eff.thrown = "none" THEN "done" ELSE OnThrow
       ELSE /\ pc' = "getValues"
            /\ UNCHANGED << outbox, error, nReports >>
    /\ UNCHANGED << entry, Environment, CONFIG, Store, ScanLocals, Probe >>

\* getRange(...).getValues(), shift() and the three findColumn calls; the host
\* may fail to read the range
GetValues ==
    /\ pc = "getValues"
    /\ \/ /\ error' = "source"
          /\ pc' = OnThrow
          /\ UNCHANGED << iItem, iDueDate, iArchived >>
       \/ /\ iItem' = findColumn(book.headerRow, ColumnLabels.maintenance)
          /\ iDueDate' = findColumn(book.headerRow, ColumnLabels.due)
          /\ iArchived' = findColumn(book.headerRow, ColumnLabels.archived)
          /\ pc' = "checkColumns"
          /\ UNCHANGED error
    /\ UNCHANGED << entry, Environment, CONFIG, Store, overdueItems, dueItems,
                    nEmpty, cursor, outbox, nReports, Probe >>

\* if (iItem === null || iDueDate === null): report, and the report throws
CheckColumns ==
    /\ pc = "checkColumns"
    /\ IF iItem = NULL \/ iDueDate = NULL
       THEN \E delivered \in BOOLEAN :
              LET eff == sendEmailError(CONFIG, "columns", TRUE, delivered)
              IN  /\ outbox' = eff.outbox
                  /\ error' = eff.thrown
                  /\ nReports' = nReports + 1
                  /\ pc' = IF eff.thrown = "none" THEN "done" ELSE OnThrow
       ELSE /\ pc' = "scan"
            /\ UNCHANGED << outbox, error, nReports >>
    /\ UNCHANGED << entry, Environment, CONFIG, Store, ScanLocals, Probe >>

\* if (!desc || !due): the task cell is blank or the due cell is blank
IsEmptyRow(row) == Cell(row, iItem) = "" \/ Cell(row, iDueDate) = BlankDate

IsArchivedIgnored(row) == FALSE

\* if (archived): row[iArchived], undefined when there is no archived column
IsArchived(row) == IF iArchived = NULL THEN FALSE ELSE Cell(row, iArchived)

\* new MaintenanceItem(desc, due) for a populated row
ItemOf(row) == MaintenanceItem(Cell(row, iItem), Cell(row, iDueDate)[1])

\* if (nEmpty === 4) break, or the rows are exhausted
ScanOver == cursor = Len(book.sheetData) \/ nEmpty = EmptyRowLimit

\* One iteration of the for-of loop over sheetData
ScanRow ==
    /\ pc = "scan"
    /\ ~ScanOver
    /\ cursor' = cursor + 1
    /\ LET row == book.sheetData[cursor + 1]
       IN  IF IsEmptyRow(row)
           THEN /\ nEmpty' = nEmpty + 1
                /\ UNCHANGED << overdueItems, dueItems >>
           ELSE IF IsArchived(row)
           THEN UNCHANGED << nEmpty, overdueItems, dueItems >>
           ELSE /\ UNCHANGED nEmpty
                /\ IF isOverdue(ItemOf(row))
                   THEN /\ overdueItems' = Append(overdueItems, ItemOf(row))
                        /\ UNCHANGED dueItems
                   ELSE IF isDue(ItemOf(row))
                   THEN /\ dueItems' = Append(dueItems, ItemOf(row))
                        /\ UNCHANGED overdueItems
                   ELSE UNCHANGED << overdueItems, dueItems >>
    /\ UNCHANGED << pc, entry, Environment, CONFIG, Store, iItem, iDueDate, iArchived,
                    error, outbox, nReports, Probe >>

\* The loop ends; if (overdueItems.length > 0 || dueItems.length > 0)
ScanEnd ==
    /\ pc = "scan"
    /\ ScanOver
    /\ pc' = IF Len(overdueItems) > 0 \/ Len(dueItems) > 0 THEN "sendEmail" ELSE "done"
    /\ UNCHANGED << entry, Environment, CONFIG, Store, ScanLocals, error, outbox,
                    nReports, Probe >>

numItemsDueOnly(due, overdue) == Len(due)

\* const numItems = dueItems.length + overdueItems.length
numItems(due, overdue) == Len(due) + Len(overdue)

\* sendEmail(dueItems, overdueItems): getUrl() and MailApp.sendEmail are host
\* calls and either may throw
SendEmail ==
    /\ pc = "sendEmail"
    /\ IF numItems(dueItems, overdueItems) = 0
       THEN /\ pc' = "done"
            /\ UNCHANGED << outbox, error >>
       ELSE \E urlOk \in BOOLEAN, delivered \in BOOLEAN :
              IF ~urlOk
              THEN /\ error' = "compose" /\ pc' = OnThrow /\ UNCHANGED outbox
              ELSE IF ~delivered
              THEN /\ error' = "transport" /\ pc' = OnThrow /\ UNCHANGED outbox
              ELSE /\ outbox' = Append(outbox,
                          Mail("reminder", CONFIG.email, dueItems, overdueItems,
                               numItems(dueItems, overdueItems)))
                   /\ pc' = "done"
                   /\ UNCHANGED error
    /\ UNCHANGED << entry, Environment, CONFIG, Store, ScanLocals, nReports, Probe >>

\* main's catch block: sendEmailError(error), which throws again
Catch ==
    /\ pc = "catch"
    /\ \E delivered \in BOOLEAN :
         LET eff == sendEmailError(CONFIG, error, TRUE, delivered)
         IN  /\ outbox' = eff.outbox
             /\ error' = eff.thrown
             /\ nReports' = nReports + 1
             /\ pc' = IF eff.thrown = "none" THEN "done" ELSE "failed"
    /\ UNCHANGED << entry, Environment, CONFIG, Store, ScanLocals, Probe >>

NextMain ==
    \/ InvokeMain
    \/ LoadConfig
    \/ GetSheet
    \/ GetValues
    \/ CheckColumns
    \/ ScanRow
    \/ ScanEnd
    \/ SendEmail
    \/ Catch

TypicalClock == 9 * MS_PER_HOUR

DefaultSchedule == [triggerDays |-> << "SATURDAY" >>, triggerHours |-> << 7 >>]

Emails == { NoEmail, PlaceholderEmail, ValidEmail }

Fresh ==
    /\ pc = "idle" /\ entry = "none"
    /\ CONFIG = NullConfig
    /\ iItem = NULL /\ iDueDate = NULL /\ iArchived = NULL
    /\ overdueItems = << >> /\ dueItems = << >> /\ nEmpty = 0 /\ cursor = 0
    /\ allTriggers = << >>
    /\ error = "none" /\ outbox = << >> /\ nReports = 0
    /\ item = MaintenanceItem("", 0) /\ days = 0

InitMain ==
    /\ USER_CONFIG \in [email : Emails]
    /\ DEFAULT_CONFIG \in [daysDueThreshold : 0..MaxThreshold,
                           daysOverdueThreshold : 0..MaxThreshold,
                           triggerDays : { DefaultSchedule.triggerDays },
                           triggerHours : { DefaultSchedule.triggerHours }]
    /\ book \in Books
    /\ clock = TypicalClock
    /\ triggers = << >>
    /\ Fresh

SpecMain == InitMain /\ [][NextMain]_vars

----------------------------------------------------------------------------
(* setupSchedule and deleteTriggers *)

NewTrigger(fn, day, hour) == [handler |-> fn, day |-> day, hour |-> hour]

deleteTriggersNone(store, triggerFunctionName) == store

deleteTriggersAll(store, triggerFunctionName) == << >>

\* deleteTriggers: every trigger whose handler is the named function is deleted
deleteTriggers(store, triggerFunctionName) ==
    SelectSeq(store, LAMBDA t : ~(t.handler = triggerFunctionName))

\* for (const hour of CONFIG.triggerHours) newTrigger('main')...create()
RECURSIVE createForHours(_, _, _)
createForHours(store, day, hours) ==
    IF hours = << >> THEN store
    ELSE createForHours(Append(store, NewTrigger("main", day, Head(hours))), day, Tail(hours))

\* for (const day of CONFIG.triggerDays)
RECURSIVE createForDays(_, _, _)
createForDays(store, daysList, hours) ==
    IF daysList = << >> THEN store
    ELSE createForDays(createForHours(store, Head(daysList), hours), Tail(daysList), hours)

\* deleteTriggers('main')
DeleteTriggers ==
    /\ pc = "deleteTriggers"
    /\ allTriggers' = triggers
    /\ triggers' = deleteTriggers(triggers, "main")
    /\ pc' = "createTriggers"
    /\ UNCHANGED << entry, Environment, CONFIG, ScanLocals, error, outbox, nReports, Probe >>

\* The two nested loops that register 'main' for every day and hour
CreateTriggers ==
    /\ pc = "createTriggers"
    /\ triggers' = createForDays(triggers, CONFIG.triggerDays, CONFIG.triggerHours)
    /\ pc' = "done"
    /\ UNCHANGED << entry, Environment, CONFIG, allTriggers, ScanLocals, error, outbox,
                    nReports, Probe >>

WeekDays == { "SATURDAY", "SUNDAY" }
Hours == { 7, 9 }
Handlers == { "main", "onEdit" }

TriggerKinds == { NewTrigger(f, d, h) : f \in Handlers, d \in WeekDays, h \in Hours }

Schedules ==
    [triggerDays : SeqsUpTo(WeekDays, MaxSchedule), triggerHours : SeqsUpTo(Hours, MaxSchedule)]

NextSchedule ==
    \/ InvokeSetupSchedule
    \/ LoadConfig
    \/ DeleteTriggers
    \/ CreateTriggers

InitSchedule ==
    /\ USER_CONFIG \in [email : Emails]
    /\ \E sch \in Schedules :
         DEFAULT_CONFIG = [daysDueThreshold |-> DefaultDueThreshold,
                           daysOverdueThreshold |-> DefaultOverdueThreshold,
                           triggerDays |-> sch.triggerDays,
                           triggerHours |-> sch.triggerHours]
    /\ book = ExampleBook
    /\ clock = TypicalClock
    /\ triggers \in SeqsUpTo(TriggerKinds, MaxTriggers)
    /\ Fresh

SpecSchedule == InitSchedule /\ [][NextSchedule]_vars

Init ==
    /\ USER_CONFIG \in [email : Emails]
    /\ DEFAULT_CONFIG = [daysDueThreshold |-> DefaultDueThreshold,
                         daysOverdueThreshold |-> DefaultOverdueThreshold,
                         triggerDays |-> DefaultSchedule.triggerDays,
                         triggerHours |-> DefaultSchedule.triggerHours]
    /\ book \in { ExampleBook, NoSheet }
    /\ clock = TypicalClock
    /\ triggers \in SeqsUpTo(TriggerKinds, MaxTriggers)
    /\ Fresh

Next ==
    \/ NextMain
    \/ InvokeSetupSchedule
    \/ DeleteTriggers
    \/ CreateTriggers

Spec == Init /\ [][Next]_vars

----------------------------------------------------------------------------
(* Date arithmetic on its own: one item is constructed and evaluated.  The
   due cell holds a calendar date (a local midnight); the clock is any hour. *)

HourInstants == { h * MS_PER_HOUR : h \in (-MaxHourSpan) .. MaxHourSpan }

EvaluateItem ==
    /\ entry = "item"
    /\ pc = "idle"
    /\ item' = MaintenanceItem(book.sheetData[1].task, book.sheetData[1].due[1])
    /\ days' = daysTilDue(item')
    /\ pc' = "done"
    /\ UNCHANGED << entry, Environment, CONFIG, Store, ScanLocals, error, outbox, nReports >>

InitDates ==
    /\ USER_CONFIG = [email |-> ValidEmail]
    /\ DEFAULT_CONFIG = [daysDueThreshold |-> DefaultDueThreshold,
                         daysOverdueThreshold |-> DefaultOverdueThreshold,
                         triggerDays |-> DefaultSchedule.triggerDays,
                         triggerHours |-> DefaultSchedule.triggerHours]
    /\ book \in { [exists |-> TRUE, headerRow |-> ExampleHeader,
                   sheetData |-> << Row("Clean gutters", DateCell(t), FALSE) >>] :
                  t \in LocalMidnights }
    /\ clock \in HourInstants
    /\ triggers = << >>
    /\ pc = "idle" /\ entry = "item"
    /\ CONFIG = NullConfig
    /\ iItem = NULL /\ iDueDate = NULL /\ iArchived = NULL
    /\ overdueItems = << >> /\ dueItems = << >> /\ nEmpty = 0 /\ cursor = 0
    /\ allTriggers = << >>
    /\ error = "none" /\ outbox = << >> /\ nReports = 0
    /\ item = MaintenanceItem("", 0) /\ days = 0

SpecDates == InitDates /\ [][EvaluateItem]_vars

----------------------------------------------------------------------------
(* Properties *)

\* What the sheet itself says about a row, read off the header names
RowMissing(row) == row.task = "" \/ row.due = BlankDate
HasArchivedColumn == "Archived" \in Range(book.headerRow)
RowArchived(row) == HasArchivedColumn /\ row.archived
RowDays(row) == daysTilDue(MaintenanceItem(row.task, row.due[1]))
AsItem(row) == MaintenanceItem(row.task, row.due[1])

RECURSIVE MapItems(_)
MapItems(rows) ==
    IF rows = << >> THEN << >> ELSE << AsItem(Head(rows)) >> \o MapItems(Tail(rows))

Reminders == SelectSeq(outbox, LAMBDA m : m.kind = "reminder")
ErrorMails == SelectSeq(outbox, LAMBDA m : m.kind = "error")

\* The for-of loop has ended (normally or by the break)
ScanFinished == entry = "main" /\ pc \in {"sendEmail", "done"}

\* Four consecutive rows with a missing task or due date lie before row k
FourMissingBefore(k) ==
    \E j \in 1..(k - EmptyRowLimit) :
        \A m \in j..(j + EmptyRowLimit - 1) : RowMissing(book.sheetData[m])

\* C1: once the scan has ended, a row was taken by the loop if and only if no
\* run of 4 consecutive empty rows lies before it.
C1_ScanStopsAtFourConsecutiveEmpty ==
    ScanFinished =>
        \A k \in 1..Len(book.sheetData) : (k <= cursor) <=> ~FourMissingBefore(k)

\* C2: at every point of a run the overdue list is the scanned, populated,
\* non-archived rows with daysTilDue <= -M in row order, the due list is those
\* with -M < daysTilDue <= N in row order, and no item is in both lists.
C2_BucketsPartitionScannedRows ==
    LET N == DEFAULT_CONFIG.daysDueThreshold
        M == DEFAULT_CONFIG.daysOverdueThreshold
        scanned == SubSeq(book.sheetData, 1, cursor)
        live == SelectSeq(scanned, LAMBDA r : ~RowMissing(r) /\ ~RowArchived(r))
    IN  /\ overdueItems = MapItems(SelectSeq(live, LAMBDA r : RowDays(r) <= -M))
        /\ dueItems = MapItems(SelectSeq(live, LAMBDA r : -M < RowDays(r) /\ RowDays(r) <= N))
        /\ Range(overdueItems) \cap Range(dueItems) = {}

C2_Witness ==
    /\ ScanFinished /\ pc = "done"
    /\ Len(overdueItems) = 1 /\ Len(dueItems) = 1
    /\ cursor = 2
    /\ daysTilDue(overdueItems[1]) = -1 * DEFAULT_CONFIG.daysOverdueThreshold
    /\ DEFAULT_CONFIG.daysOverdueThreshold > 0

\* C3: a run that ends its scan with both lists empty goes straight to its
\* normal end with nothing sent and nothing reported; a run that ends normally
\* with an item in either list has sent exactly one mail, the reminder.
C3_NothingDueSendsNothing ==
    /\ [](entry = "main" /\ pc = "done" /\ dueItems = << >> /\ overdueItems = << >>
            => outbox = << >> /\ nReports = 0 /\ error = "none")
    /\ [](entry = "main" /\ pc = "sendEmail" => Len(dueItems) + Len(overdueItems) > 0)
    /\ [](entry = "main" /\ pc = "done" /\ Len(dueItems) + Len(overdueItems) > 0
            => Len(outbox) = 1 /\ outbox[1].kind = "reminder")
    /\ [][entry = "main" /\ pc = "scan" /\ pc' # "scan"
            /\ dueItems = << >> /\ overdueItems = << >>
          => pc' = "done" /\ outbox' = outbox]_vars

C3_Witness ==
    /\ entry = "main" /\ pc = "done" /\ cursor > 0
    /\ dueItems = << >> /\ overdueItems = << >>
    /\ \E k \in 1..cursor : ~RowMissing(book.sheetData[k]) /\ ~RowArchived(book.sheetData[k])

\* C4: within one run of main, no failure produces two error notifications:
\* at most one error mail is sent.
C4_ErrorReportedOnce ==
    entry = "main" => Len(ErrorMails) <= 1

MainRegs(store) == SelectSeq(store, LAMBDA t : t.handler = "main")
OtherRegs(store) == SelectSeq(store, LAMBDA t : ~(t.handler = "main"))

SetupCompleted == entry = "setupSchedule" /\ pc = "done"

\* C5: after setupSchedule completes, the registrations for 'main' are one per
\* pair of the cross product of triggerDays and triggerHours (none when either
\* list is empty), whatever was registered before.
C5_MainRegistrationsAreCrossProduct ==
    SetupCompleted =>
        /\ Len(MainRegs(triggers)) = Len(CONFIG.triggerDays) * Len(CONFIG.triggerHours)
        /\ \A d \in WeekDays, h \in Hours :
             Count(MainRegs(triggers), NewTrigger("main", d, h))
               = Count(CONFIG.triggerDays, d) * Count(CONFIG.triggerHours, h)

C5_Witness ==
    /\ SetupCompleted
    /\ NewTrigger("main", "SATURDAY", 7) \in Range(allTriggers)
    /\ CONFIG.triggerDays = << "SUNDAY" >> /\ CONFIG.triggerHours = << 9 >>
    /\ MainRegs(triggers) = << NewTrigger("main", "SUNDAY", 9) >>

\* C6: no step of setupSchedule, deleteTriggers('main') included, changes the
\* registrations of handlers other than 'main'.
C6_OtherHandlersUntouched ==
    [][OtherRegs(triggers') = OtherRegs(triggers)]_vars

C6_Witness ==
    /\ SetupCompleted
    /\ MainRegs(allTriggers) # << >>
    /\ OtherRegs(allTriggers) # << >>
    /\ CONFIG.triggerDays = << >>
    /\ triggers = OtherRegs(allTriggers)

\* C7: daysTilDue is negative iff the due date is before today, zero iff they
\* are the same instant, positive iff the due date is later than today.
C7_SignOfDaysTilDue ==
    entry = "item" /\ pc = "done" =>
        /\ (days < 0 <=> item.dueDate < item.today)
        /\ (days = 0 <=> item.dueDate = item.today)
        /\ (days > 0 <=> item.dueDate > item.today)

\* C8: the iteration that takes a populated row flagged in the archived column
\* leaves the empty-row counter and both lists as they were; when the header
\* has no archived column every populated row is bucketed by its date alone,
\* and column resolution and the scan go on without failing.
C8_ArchivedRowsAreSkipped ==
    [][ /\ (entry = "main" /\ pc = "scan" /\ cursor' = cursor + 1 =>
              LET row == book.sheetData[cursor + 1]
              IN  /\ (~RowMissing(row) /\ RowArchived(row) =>
                        /\ nEmpty' = nEmpty
                        /\ overdueItems' = overdueItems
                        /\ dueItems' = dueItems)
                  /\ (~RowMissing(row) /\ ~HasArchivedColumn =>
                        /\ nEmpty' = nEmpty
                        /\ (RowDays(row) <= DEFAULT_CONFIG.daysDueThreshold
                              <=> Len(overdueItems') + Len(dueItems')
                                    = Len(overdueItems) + Len(dueItems) + 1))
                  /\ pc' = "scan")
        /\ (entry = "main" /\ pc = "checkColumns" /\ ~HasArchivedColumn
              /\ findColumn(book.headerRow, ColumnLabels.maintenance) # NULL
              /\ findColumn(book.headerRow, ColumnLabels.due) # NULL
            => pc' = "scan")
      ]_vars

C8_Witness ==
    /\ entry = "main" /\ pc = "scan" /\ cursor = 1
    /\ HasArchivedColumn
    /\ ~RowMissing(book.sheetData[1]) /\ book.sheetData[1].archived
    /\ RowDays(book.sheetData[1]) <= -1 * DEFAULT_CONFIG.daysOverdueThreshold
    /\ nEmpty = 0 /\ overdueItems = << >> /\ dueItems = << >>

\* C9: a reminder is in the outbox only once the scan loop has ended, it is
\* the only mail of the run and it lists both buckets whole; a run that
\* reported an error has sent no reminder.
C9_NoPartialResults ==
    /\ (Reminders # << >> =>
          /\ entry = "main" /\ pc = "done"
          /\ (cursor = Len(book.sheetData) \/ nEmpty = EmptyRowLimit)
          /\ Len(outbox) = 1
          /\ outbox[1].due = dueItems /\ outbox[1].overdue = overdueItems
          /\ outbox[1].about = Len(dueItems) + Len(overdueItems))
    /\ (nReports > 0 \/ error # "none" => Reminders = << >>)

C9_Witness ==
    /\ entry = "main" /\ pc = "done"
    /\ Len(Reminders) = 1
    /\ Len(Reminders[1].due) = 1 /\ Len(Reminders[1].overdue) = 1

EmailBad == USER_CONFIG.email \in { NoEmail, PlaceholderEmail }

\* C10: with a missing or placeholder recipient, main never gets past
\* loadConfig (it reads no row, sends no reminder and cannot end normally) and
\* no step of setupSchedule changes the trigger store (it ends failed).
C10_BadRecipientStopsEverything ==
    /\ [](EmailBad /\ entry = "main" =>
            /\ pc \in {"loadConfig", "catch", "failed"}
            /\ cursor = 0 /\ iItem = NULL /\ iDueDate = NULL
            /\ Reminders = << >>)
    /\ [](EmailBad /\ entry = "setupSchedule" => pc \in {"loadConfig", "failed"})
    /\ [][EmailBad /\ entry' = "setupSchedule" => triggers' = triggers]_vars

C10_Witness ==
    /\ USER_CONFIG.email = PlaceholderEmail
    /\ entry = "setupSchedule" /\ pc = "failed"
    /\ MainRegs(triggers) # << >> /\ OtherRegs(triggers) # << >>

====
